---- MODULE Spec2Model ----
(***************************************************************************)
(* Model of protobuf/src/reflect/dynamic/map.rs (DynamicMap, the variant   *)
(* map container) and protobuf/src/chars.rs (Chars, the validated-text     *)
(* byte view).                                                             *)
(***************************************************************************)
EXTENDS Integers, Sequences, FiniteSets, TLC

VARIABLES
    pc,      \* "start" before DynamicMap::new, "live" once built, "dead" if new panicked
    value,   \* DynamicMap.value : RuntimeTypeBox
    maps,    \* DynamicMap.maps  : Maps, [tag |-> variant, m |-> the variant's HashMap]
    ret,     \* what the last DynamicMap call was given and what it produced
    hist,    \* history: the (key, value) pairs stored since the last clear()
    chars,   \* Chars.0 : the bytes of the view the caller holds
    cret     \* what the last Chars call was given and what it produced

vars == <<pc, value, maps, ret, hist, chars, cret>>
mapVars == <<pc, value, maps, ret, hist>>
charsVars == <<chars, cret>>

(***************************************************************************)
(* Bounds                                                                  *)
(***************************************************************************)
\* Most successful inserts followed between two clear() calls.
MaxHist == 2
\* Longest byte buffer handed to Chars.
MaxLen == 3

(***************************************************************************)
(* Runtime type tags and dynamic values                                    *)
(***************************************************************************)
\* RuntimeTypeBox: the closed enumeration of runtime type tags.
RuntimeTypeBox ==
    {"U32", "I32", "U64", "I64", "F32", "F64", "Bool", "String", "VecU8",
     "Enum", "Message"}

\* ReflectValueBoxHashable: the variants a key handed to insert can have.
HashableVariants == {"U32", "I32", "U64", "I64", "Bool", "String"}

\* ReflectValueRef / ReflectValueBox: one variant per runtime type.
ValueVariants ==
    {"U32", "I32", "U64", "I64", "F32", "F64", "Bool", "String", "Bytes",
     "Enum", "Message"}

\* Option<T>: None is <<>>, Some(x) is <<x>>.
None == <<>>
Some(x) == <<x>>

\* Payloads a key of the given variant is drawn from.
KeyPayload(tag) ==
    CASE tag = "Bool" -> BOOLEAN
      [] tag = "String" -> {"a", "b"}
      [] tag \in {"U32", "I32", "U64", "I64"} -> {3, 7}
      [] tag = "Bytes" -> {"a"}
      [] OTHER -> {3}

\* The variants of the values handed to insert, and their payloads.
InsertedVariants == {"I32", "Bytes"}
ValPayload(tag) == IF tag = "I32" THEN {1, 2} ELSE {"x", "y"}

\* ReflectValueBox::get_type: the runtime type tag of an owned value.
get_type(v) == IF v.tag = "Bytes" THEN "VecU8" ELSE v.tag

\* ReflectValueBox::as_value_ref: the borrowed value of the same variant.
as_value_ref(v) == [tag |-> v.tag, val |-> v.val]

(***************************************************************************)
(* HashMap<K, ReflectValueBox>, as a function from the stored keys         *)
(***************************************************************************)
HashMapNew == <<>>
HashMapLen(m) == Cardinality(DOMAIN m)
HashMapIsEmpty(m) == DOMAIN m = {}
HashMapGet(m, k) == IF k \in DOMAIN m THEN Some(m[k]) ELSE None
HashMapInsert(m, k, v) == [x \in DOMAIN m \cup {k} |-> IF x = k THEN v ELSE m[x]]

(***************************************************************************)
(* enum Maps                                                               *)
(***************************************************************************)
Maps_len(ms) == HashMapLen(ms.m)

Maps_is_empty(ms) == HashMapIsEmpty(ms.m)

\* Mutant: clear() rebuilds the storage as the first variant.
Maps_clear_resets_variant(ms) == [tag |-> "U32", m |-> HashMapNew]

Maps_clear(ms) == [tag |-> ms.tag, m |-> HashMapNew]

Maps_key_type(ms) ==
    CASE ms.tag = "U32" -> "U32"
      [] ms.tag = "I32" -> "I32"
      [] ms.tag = "U64" -> "U64"
      [] ms.tag = "I64" -> "I64"
      [] ms.tag = "Bool" -> "Bool"
      [] ms.tag = "String" -> "String"

(***************************************************************************)
(* DynamicMap: the pure part of each method                                *)
(***************************************************************************)
\* Mutant: the Bool arm of new is missing.
new_panics_without_bool(key) == key \notin {"U32", "I32", "U64", "I64", "String"}

\* DynamicMap::new panics on a key type no Maps variant exists for.
new_panics(key) == key \notin {"U32", "I32", "U64", "I64", "Bool", "String"}

new_maps(key) == [tag |-> key, m |-> HashMapNew]

len(ms) == Maps_len(ms)

is_empty(ms) == Maps_is_empty(ms)

\* Mutant: get looks a 32-bit key up in the map of the other signedness.
get_lookup_coercing(ms, key) ==
    CASE ms.tag \in {"U32", "I32"} /\ key.tag \in {"U32", "I32"} -> HashMapGet(ms.m, key.val)
      [] ms.tag = "U64" /\ key.tag = "U64" -> HashMapGet(ms.m, key.val)
      [] ms.tag = "I64" /\ key.tag = "I64" -> HashMapGet(ms.m, key.val)
      [] ms.tag = "Bool" /\ key.tag = "Bool" -> HashMapGet(ms.m, key.val)
      [] ms.tag = "String" /\ key.tag = "String" -> HashMapGet(ms.m, key.val)
      [] OTHER -> None

\* The match of get: a lookup when the variant pairs with the key's tag, else None.
get_lookup(ms, key) ==
    CASE ms.tag = "U32" /\ key.tag = "U32" -> HashMapGet(ms.m, key.val)
      [] ms.tag = "U64" /\ key.tag = "U64" -> HashMapGet(ms.m, key.val)
      [] ms.tag = "I32" /\ key.tag = "I32" -> HashMapGet(ms.m, key.val)
      [] ms.tag = "I64" /\ key.tag = "I64" -> HashMapGet(ms.m, key.val)
      [] ms.tag = "Bool" /\ key.tag = "Bool" -> HashMapGet(ms.m, key.val)
      [] ms.tag = "String" /\ key.tag = "String" -> HashMapGet(ms.m, key.val)
      [] OTHER -> None

\* .map(ReflectValueBox::as_value_ref) on what the match found.
get(ms, key) ==
    LET found == get_lookup(ms, key) IN
    IF found = None THEN None ELSE Some(as_value_ref(found[1]))

\* Mutant: the assertion on the value's type is compiled out.
insert_assert_off(declared, v) == TRUE

\* assert!(value.get_type() == self.value)
insert_assert(declared, v) == get_type(v) = declared

\* Mutant: the String arm stores whatever key it is given.
insert_arm_string_any(ms, key) ==
    CASE ms.tag = "U32" /\ key.tag = "U32" -> "store"
      [] ms.tag = "U64" /\ key.tag = "U64" -> "store"
      [] ms.tag = "I32" /\ key.tag = "I32" -> "store"
      [] ms.tag = "I64" /\ key.tag = "I64" -> "store"
      [] ms.tag = "Bool" /\ key.tag = "Bool" -> "store"
      [] ms.tag = "String" -> "store"
      [] OTHER -> "panic"

\* The match of insert on (&mut self.maps, &key): "store" when an arm that
\* calls m.insert is taken, "panic" when a panic!("wrong key type") arm is.
insert_arm(ms, key) ==
    CASE ms.tag = "U32" /\ key.tag = "U32" -> "store"
      [] ms.tag = "U64" /\ key.tag = "U64" -> "store"
      [] ms.tag = "I32" /\ key.tag = "I32" -> "store"
      [] ms.tag = "I64" /\ key.tag = "I64" -> "store"
      [] ms.tag = "Bool" /\ key.tag = "Bool" -> "store"
      [] ms.tag = "String" -> IF key.tag = "String" THEN "store" ELSE "panic"
      [] OTHER -> "panic"

\* The two ways insert ends: unwinding with self.maps as it is at that point,
\* or m.insert(k, value) on the active variant (the displaced value is dropped).
Unwind(ms) == [panicked |-> TRUE, maps |-> ms]
\* Mutant: an occupied entry keeps its value (entry(k).or_insert(value)).
Stored_keeping_old(ms, k, v) ==
    [panicked |-> FALSE,
     maps |-> IF k \in DOMAIN ms.m
              THEN ms
              ELSE [tag |-> ms.tag, m |-> HashMapInsert(ms.m, k, v)]]

Stored(ms, k, v) ==
    [panicked |-> FALSE, maps |-> [tag |-> ms.tag, m |-> HashMapInsert(ms.m, k, v)]]

\* Mutant: insert goes straight to the match on the key.
insert_unasserted(declared, ms, key, v) ==
    IF insert_arm(ms, key) = "store" THEN Stored(ms, key.val, v) ELSE Unwind(ms)

\* Mutant: the value's type is asserted after the match has stored the entry.
insert_store_then_assert(declared, ms, key, v) ==
    IF insert_arm(ms, key) = "store"
    THEN IF insert_assert(declared, v)
         THEN Stored(ms, key.val, v)
         ELSE Unwind(Stored(ms, key.val, v).maps)
    ELSE Unwind(ms)

insert(declared, ms, key, v) ==
    IF ~insert_assert(declared, v)
    THEN Unwind(ms)
    ELSE IF insert_arm(ms, key) = "store"
         THEN Stored(ms, key.val, v)
         ELSE Unwind(ms)

clear(ms) == Maps_clear(ms)

key_type(ms) == Maps_key_type(ms)

value_type(declared) == declared

(***************************************************************************)
(* DynamicMap: one action per call                                         *)
(***************************************************************************)
NoArg == <<>>
Ret(op, panicked, key, val, out) ==
    [op |-> op, panicked |-> panicked, key |-> key, val |-> val, out |-> out]

MapInit ==
    /\ pc = "start"
    /\ value = "none"
    /\ maps = [tag |-> "none", m |-> HashMapNew]
    /\ ret = Ret("none", FALSE, NoArg, NoArg, NoArg)
    /\ hist = <<>>

New(k, v) ==
    /\ pc = "start"
    /\ IF new_panics(k)
       THEN /\ pc' = "dead"
            /\ ret' = Ret("new", TRUE, Some(k), Some(v), NoArg)
            /\ UNCHANGED <<value, maps, hist, chars, cret>>
       ELSE /\ pc' = "live"
            /\ value' = v
            /\ maps' = new_maps(k)
            /\ ret' = Ret("new", FALSE, Some(k), Some(v), NoArg)
            /\ UNCHANGED <<hist, chars, cret>>

ReflectIter ==
    /\ pc = "live"
    /\ ret' = Ret("reflect_iter", TRUE, NoArg, NoArg, NoArg)
    /\ UNCHANGED <<pc, value, maps, hist, chars, cret>>

LenCall ==
    /\ pc = "live"
    /\ ret' = Ret("len", FALSE, NoArg, NoArg, Some(len(maps)))
    /\ UNCHANGED <<pc, value, maps, hist, chars, cret>>

IsEmptyCall ==
    /\ pc = "live"
    /\ ret' = Ret("is_empty", FALSE, NoArg, NoArg, Some(is_empty(maps)))
    /\ UNCHANGED <<pc, value, maps, hist, chars, cret>>

GetCall(key) ==
    /\ pc = "live"
    /\ ret' = Ret("get", FALSE, Some(key), NoArg, get(maps, key))
    /\ UNCHANGED <<pc, value, maps, hist, chars, cret>>

InsertCall(key, v) ==
    /\ pc = "live"
    /\ LET r == insert(value, maps, key, v) IN
          /\ r.panicked \/ Len(hist) < MaxHist
          /\ maps' = r.maps
          /\ ret' = Ret("insert", r.panicked, Some(key), Some(v), NoArg)
          /\ hist' = IF r.panicked THEN hist ELSE Append(hist, [key |-> key, val |-> v])
    /\ UNCHANGED <<pc, value, chars, cret>>

ClearCall ==
    /\ pc = "live"
    /\ maps' = clear(maps)
    /\ ret' = Ret("clear", FALSE, NoArg, NoArg, NoArg)
    /\ hist' = <<>>
    /\ UNCHANGED <<pc, value, chars, cret>>

KeyTypeCall ==
    /\ pc = "live"
    /\ ret' = Ret("key_type", FALSE, NoArg, NoArg, Some(key_type(maps)))
    /\ UNCHANGED <<pc, value, maps, hist, chars, cret>>

ValueTypeCall ==
    /\ pc = "live"
    /\ ret' = Ret("value_type", FALSE, NoArg, NoArg, Some(value_type(value)))
    /\ UNCHANGED <<pc, value, maps, hist, chars, cret>>

MapNext ==
    \/ \E k \in RuntimeTypeBox : \E v \in RuntimeTypeBox : New(k, v)
    \/ ReflectIter
    \/ LenCall
    \/ IsEmptyCall
    \/ \E tag \in ValueVariants : \E k \in KeyPayload(tag) :
          GetCall([tag |-> tag, val |-> k])
    \/ \E kt \in HashableVariants : \E k \in KeyPayload(kt) :
       \E vt \in InsertedVariants : \E p \in ValPayload(vt) :
          InsertCall([tag |-> kt, val |-> k], [tag |-> vt, val |-> p])
    \/ ClearCall
    \/ KeyTypeCall
    \/ ValueTypeCall

(***************************************************************************)
(* Chars: bytes, text and UTF-8                                            *)
(***************************************************************************)
\* The byte values buffers are built from: 'A', a continuation byte, the lead
\* byte of a two-byte sequence and the lead byte of a three-byte sequence.
ByteAlphabet == {65, 169, 195, 226}

\* The characters (code points) texts are built from: 'A', U+00E9, U+2A69.
CharAlphabet == {65, 233, 10857}

RECURSIVE SeqsUpTo(_, _)
SeqsUpTo(S, n) ==
    IF n = 0
    THEN {<<>>}
    ELSE SeqsUpTo(S, n - 1) \cup
         {Append(q, x) : q \in {r \in SeqsUpTo(S, n - 1) : Len(r) = n - 1}, x \in S}

\* The buffers (Bytes) a caller hands over.
ByteBuffers == SeqsUpTo(ByteAlphabet, MaxLen)

\* char::encode_utf8
EncodeChar(c) ==
    IF c < 128 THEN <<c>>
    ELSE IF c < 2048 THEN <<192 + (c \div 64), 128 + (c % 64)>>
    ELSE IF c < 65536
         THEN <<224 + (c \div 4096), 128 + ((c \div 64) % 64), 128 + (c % 64)>>
         ELSE <<240 + (c \div 262144), 128 + ((c \div 4096) % 64),
                128 + ((c \div 64) % 64), 128 + (c % 64)>>

\* str::as_bytes: the UTF-8 encoding of a text, character by character.
RECURSIVE as_bytes(_)
as_bytes(text) ==
    IF text = <<>> THEN <<>> ELSE EncodeChar(Head(text)) \o as_bytes(Tail(text))

\* The texts (&str, String) a caller hands over: at most MaxLen bytes long.
Texts == {t \in SeqsUpTo(CharAlphabet, MaxLen) : Len(as_bytes(t)) <= MaxLen}

\* The width of the sequence a lead byte opens (core::str::utf8_char_width).
utf8_char_width(b) ==
    CASE b < 128 -> 1
      [] b \in 194..223 -> 2
      [] b \in 224..239 -> 3
      [] b \in 240..244 -> 4
      [] OTHER -> 0

\* The second byte a lead byte of width 3 or 4 admits.
SecondByteOk(first, second) ==
    CASE first = 224 -> second \in 160..191
      [] first = 237 -> second \in 128..159
      [] first = 240 -> second \in 144..191
      [] first = 244 -> second \in 128..143
      [] OTHER -> second \in 128..191

\* str::from_utf8(..).is_ok(): the validation scan, from index i (1-based).
RECURSIVE utf8_valid_from(_, _)
utf8_valid_from(s, i) ==
    IF i > Len(s)
    THEN TRUE
    ELSE LET w == utf8_char_width(s[i]) IN
         CASE w = 1 -> utf8_valid_from(s, i + 1)
           [] w = 2 -> /\ i + 1 <= Len(s)
                       /\ s[i + 1] \in 128..191
                       /\ utf8_valid_from(s, i + 2)
           [] w = 3 -> /\ i + 2 <= Len(s)
                       /\ SecondByteOk(s[i], s[i + 1])
                       /\ s[i + 2] \in 128..191
                       /\ utf8_valid_from(s, i + 3)
           [] w = 4 -> /\ i + 3 <= Len(s)
                       /\ SecondByteOk(s[i], s[i + 1])
                       /\ s[i + 2] \in 128..191
                       /\ s[i + 3] \in 128..191
                       /\ utf8_valid_from(s, i + 4)
           [] OTHER -> FALSE

from_utf8_is_ok(s) == utf8_valid_from(s, 1)

\* Results: Ok(view), Err(Utf8Error), or a panic unwinding out of the call.
Ok(bytes) == [status |-> "ok", out |-> Some(bytes)]
Err == [status |-> "err", out |-> None]
Panic == [status |-> "panic", out |-> None]

\* Bytes::slice(range): every RangeBounds form comes down to a first offset
\* begin and an exclusive end; it panics unless begin <= end <= len.
Bytes_slice(s, begin, end) ==
    IF begin <= end /\ end <= Len(s) THEN Ok(SubSeq(s, begin + 1, end)) ELSE Panic

(***************************************************************************)
(* Chars: the pure part of each method                                     *)
(***************************************************************************)
Chars_new == <<>>

Chars_default == Chars_new

Chars_clear(self) == <<>>

from_bytes(bytes) == IF from_utf8_is_ok(bytes) THEN Ok(bytes) ELSE Err

byte_slice(self, begin, end) == Bytes_slice(self, begin, end)

\* Mutant: checked_byte_slice slices without validating.
checked_byte_slice_unvalidated(self, begin, end) == Bytes_slice(self, begin, end)

checked_byte_slice(self, begin, end) ==
    LET slice == Bytes_slice(self, begin, end) IN
    IF slice.status = "panic" THEN Panic ELSE from_bytes(slice.out[1])

from_str(src) == as_bytes(src)

from_string(src) == as_bytes(src)

Chars_clone(self) == self

(***************************************************************************)
(* Chars: one action per call                                              *)
(***************************************************************************)
NoRange == <<>>
CRet(op, status, src, range, out) ==
    [op |-> op, status |-> status, src |-> src, range |-> range, out |-> out]

CharsInit ==
    /\ chars = Chars_new
    /\ cret = CRet("new", "ok", <<>>, NoRange, Some(Chars_new))

\* let v = Chars::new()
CharsNew ==
    /\ chars' = Chars_new
    /\ cret' = CRet("new", "ok", <<>>, NoRange, Some(Chars_new))
    /\ UNCHANGED mapVars

\* let v = Chars::default()
CharsDefault ==
    /\ chars' = Chars_default
    /\ cret' = CRet("default", "ok", <<>>, NoRange, Some(Chars_default))
    /\ UNCHANGED mapVars

\* v.clear()
CharsClear ==
    /\ chars' = Chars_clear(chars)
    /\ cret' = CRet("clear", "ok", chars, NoRange, None)
    /\ UNCHANGED mapVars

\* let v = Chars::from_bytes(bytes)?  (v is left as it was on Err)
FromBytes(bytes) ==
    LET r == from_bytes(bytes) IN
    /\ chars' = IF r.status = "ok" THEN r.out[1] ELSE chars
    /\ cret' = CRet("from_bytes", r.status, <<>>, NoRange, r.out)
    /\ UNCHANGED mapVars

\* let v = Chars::from(src) for src: &str
FromStr(src) ==
    /\ chars' = from_str(src)
    /\ cret' = CRet("from_str", "ok", <<>>, NoRange, Some(from_str(src)))
    /\ UNCHANGED mapVars

\* let v = Chars::from(src) for src: String
FromString(src) ==
    /\ chars' = from_string(src)
    /\ cret' = CRet("from_string", "ok", <<>>, NoRange, Some(from_string(src)))
    /\ UNCHANGED mapVars

\* v.clone()
CharsCloneCall ==
    /\ cret' = CRet("clone", "ok", chars, NoRange, Some(Chars_clone(chars)))
    /\ UNCHANGED <<chars, pc, value, maps, ret, hist>>

\* v.byte_slice(begin..end)
ByteSlice(begin, end) ==
    LET r == byte_slice(chars, begin, end) IN
    /\ cret' = CRet("byte_slice", r.status, chars, <<begin, end>>, r.out)
    /\ UNCHANGED <<chars, pc, value, maps, ret, hist>>

\* v.checked_byte_slice(begin..end)
CheckedByteSlice(begin, end) ==
    LET r == checked_byte_slice(chars, begin, end) IN
    /\ cret' = CRet("checked_byte_slice", r.status, chars, <<begin, end>>, r.out)
    /\ UNCHANGED <<chars, pc, value, maps, ret, hist>>

\* The caller goes on with the view the last call returned.
Take ==
    /\ cret.op \in {"clone", "byte_slice", "checked_byte_slice"}
    /\ cret.out # None
    /\ chars' = cret.out[1]
    /\ cret' = CRet("take", "ok", <<>>, NoRange, None)
    /\ UNCHANGED mapVars

\* &*v (Deref, and Display/Debug through it): str::from_utf8_unchecked on the
\* bytes. On bytes that are not UTF-8 the behaviour is undefined: the text
\* read is garbage or the read does not complete.
Deref ==
    /\ \/ /\ from_utf8_is_ok(chars)
          /\ cret' = CRet("deref", "ok", chars, NoRange, Some(chars))
       \/ /\ ~from_utf8_is_ok(chars)
          /\ \E o \in {None, Some(chars)} : cret' = CRet("deref", "ub", chars, NoRange, o)
    /\ UNCHANGED <<chars, pc, value, maps, ret, hist>>

CharsNext ==
    \/ CharsNew
    \/ CharsDefault
    \/ CharsClear
    \/ \E bytes \in ByteBuffers : FromBytes(bytes)
    \/ \E src \in Texts : FromStr(src)
    \/ \E src \in Texts : FromString(src)
    \/ CharsCloneCall
    \/ \E begin \in 0..(MaxLen + 1) : \E end \in 0..(MaxLen + 1) : ByteSlice(begin, end)
    \/ \E begin \in 0..(MaxLen + 1) : \E end \in 0..(MaxLen + 1) :
          CheckedByteSlice(begin, end)
    \/ Take
    \/ Deref

(***************************************************************************)
(* Specifications                                                          *)
(***************************************************************************)
Init == MapInit /\ CharsInit

Next == MapNext

\* The DynamicMap calls, in any order.
Spec == Init /\ [][Next]_vars

\* The Chars calls, in any order.
SpecChars == Init /\ [][CharsNext]_vars

(***************************************************************************)
(* Vocabulary of the properties                                            *)
(***************************************************************************)
\* The value of the last pair of h stored under key payload k, if any.
LastInsert(h, k) ==
    LET at == {i \in 1..Len(h) : h[i].key.val = k} IN
    IF at = {}
    THEN None
    ELSE Some(h[CHOOSE i \in at : \A j \in at : j <= i].val)

\* The key payloads stored by the pairs of h.
DistinctKeys(h) == {h[i].key.val : i \in 1..Len(h)}

\* str::is_char_boundary, on the bytes of a text (i is a 0-based byte offset).
IsCharBoundary(s, i) ==
    \/ i = 0
    \/ i = Len(s)
    \/ i < Len(s) /\ s[i + 1] \notin 128..191

\* The last Chars call sliced a view of valid UTF-8 by an in-bounds range.
SlicedValidInBounds ==
    /\ cret.op \in {"byte_slice", "checked_byte_slice"}
    /\ from_utf8_is_ok(cret.src)
    /\ cret.range[1] <= cret.range[2]
    /\ cret.range[2] <= Len(cret.src)

RangeAligned ==
    IsCharBoundary(cret.src, cret.range[1]) /\ IsCharBoundary(cret.src, cret.range[2])

(***************************************************************************)
(* Properties                                                              *)
(***************************************************************************)

\* C1: after any successful inserts and clears, get(k) is the value of the
\* most recent insert under k since the last clear (absent if none), len() is
\* the number of distinct keys inserted since the last clear, and is_empty()
\* is true exactly when len() is 0.
C1_Upsert ==
    pc = "live" =>
        /\ \A k \in KeyPayload(key_type(maps)) :
              get(maps, [tag |-> key_type(maps), val |-> k]) = LastInsert(hist, k)
        /\ len(maps) = Cardinality(DistinctKeys(hist))
        /\ is_empty(maps) <=> (len(maps) = 0)
        /\ (ret.op = "get" /\ ret.key[1].tag = key_type(maps))
              => ret.out = LastInsert(hist, ret.key[1].val)
        /\ ret.op = "len" => ret.out = Some(Cardinality(DistinctKeys(hist)))
        /\ ret.op = "is_empty" => ret.out = Some(hist = <<>>)

\* C1 witness: the same key was inserted twice with different values, one
\* entry is held, and get has just returned the second value.
C1_Witness ==
    /\ pc = "live"
    /\ Len(hist) = 2
    /\ hist[1].key = hist[2].key
    /\ hist[1].val # hist[2].val
    /\ len(maps) = 1
    /\ ret.op = "get"
    /\ ret.key[1].tag = key_type(maps)
    /\ ret.key[1].val = hist[2].key.val
    /\ ret.out = Some(hist[2].val)

\* C2: get with a key whose tag differs from the container's key type
\* (non-hashable tags included) returns None, does not panic, and leaves the
\* map's contents and its key and value types as they were.
C2_GetLenient ==
    /\ [](pc = "live" =>
            /\ \A tag \in ValueVariants \ {key_type(maps)} : \A k \in KeyPayload(tag) :
                  get(maps, [tag |-> tag, val |-> k]) = None
            /\ (ret.op = "get" /\ ret.key[1].tag # key_type(maps))
                  => (ret.out = None /\ ~ret.panicked))
    /\ [][ret'.op = "get" => (maps' = maps /\ value' = value /\ hist' = hist)]_vars

\* C2 witness: a U32-keyed map holds an entry under 3 and get was just called
\* with the I32 key 3.
C2_Witness ==
    /\ pc = "live"
    /\ maps.tag = "U32"
    /\ ret.op = "get"
    /\ ret.key[1].tag = "I32"
    /\ ret.key[1].val \in DOMAIN maps.m
    /\ ret.out = None

\* C3: insert with a value whose type differs from the declared value type
\* panics, whatever the key, and stores nothing.
C3_ValueMismatchPanics ==
    [][(ret'.op = "insert" /\ get_type(ret'.val[1]) # value)
          => (ret'.panicked /\ maps' = maps)]_vars

\* C3 witness: an insert with the right key type and the wrong value type has
\* just panicked on a map that holds entries.
C3_Witness ==
    /\ pc = "live"
    /\ ret.op = "insert"
    /\ ret.panicked
    /\ get_type(ret.val[1]) # value
    /\ ret.key[1].tag = key_type(maps)
    /\ ~is_empty(maps)

\* C4: for every key-type variant, insert with a correctly typed value and a
\* key whose tag differs from the container's key type panics and stores
\* nothing: no key is coerced.
C4_KeyMismatchPanics ==
    [][(ret'.op = "insert" /\ get_type(ret'.val[1]) = value
            /\ ret'.key[1].tag # key_type(maps))
          => (ret'.panicked /\ maps' = maps)]_vars

\* C4 witness: a String-keyed map has just refused a U32 key that came with a
\* correctly typed value.
C4_Witness ==
    /\ pc = "live"
    /\ maps.tag = "String"
    /\ ret.op = "insert"
    /\ ret.panicked
    /\ get_type(ret.val[1]) = value
    /\ ret.key[1].tag = "U32"

\* C5: new(k, v) yields key_type() = k and value_type() = v, and no later call
\* (get, insert whether it panics or not, clear) changes either.
C5_TypesFixed ==
    [][/\ (ret'.op = "new" /\ ~ret'.panicked)
             => (key_type(maps') = ret'.key[1] /\ value_type(value') = ret'.val[1])
       /\ pc = "live"
             => /\ pc' = "live"
                /\ key_type(maps') = key_type(maps)
                /\ value_type(value') = value_type(value)
       /\ ret'.op = "key_type" => ret'.out = Some(key_type(maps))
       /\ ret'.op = "value_type" => ret'.out = Some(value_type(value))]_vars

\* C5 witness: clear has just run on a String-keyed map.
C5_Witness ==
    /\ pc = "live"
    /\ ret.op = "clear"
    /\ is_empty(maps)
    /\ key_type(maps) = "String"
    /\ value_type(value) = "VecU8"

\* C6: every stored value has the declared value type, and so has every value
\* get returns.
C6_StoredValuesTyped ==
    pc = "live" =>
        /\ \A k \in DOMAIN maps.m : get_type(maps.m[k]) = value
        /\ (ret.op = "get" /\ ret.out # None) => get_type(ret.out[1]) = value

\* C6 witness: get has just returned a value from a map of two entries.
C6_Witness ==
    /\ pc = "live"
    /\ len(maps) = 2
    /\ ret.op = "get"
    /\ ret.out # None

\* C7: every Chars reachable through the calls that are not unsafe holds valid
\* UTF-8, so no text read interprets invalid bytes.
C7_AlwaysUtf8 ==
    /\ from_utf8_is_ok(chars)
    /\ (cret.op \in {"new", "default", "from_bytes", "from_str", "from_string",
                     "clone", "byte_slice", "checked_byte_slice"}
          /\ cret.out # None) => from_utf8_is_ok(cret.out[1])
    /\ cret.op = "deref" => cret.status = "ok"

\* C8 as stated: on a view of valid UTF-8 and an in-bounds range, both slices
\* succeed with the bytes of the range when both ends are character
\* boundaries, and checked_byte_slice fails when either end is not; neither
\* changes the view.
C8_SliceAsStated ==
    /\ [](SlicedValidInBounds =>
            /\ RangeAligned =>
                  /\ cret.status = "ok"
                  /\ cret.out = Some(SubSeq(cret.src, cret.range[1] + 1, cret.range[2]))
            /\ (~RangeAligned /\ cret.op = "checked_byte_slice") => cret.status = "err")
    /\ [][cret'.op \in {"byte_slice", "checked_byte_slice"} => chars' = chars]_vars

\* C8 amended: as C8, but checked_byte_slice fails on a range with an end
\* inside a character only when the range is not empty; on an empty in-bounds
\* range it succeeds with the empty view wherever the range lies.
C8_SliceAmended ==
    /\ [](SlicedValidInBounds =>
            /\ RangeAligned =>
                  /\ cret.status = "ok"
                  /\ cret.out = Some(SubSeq(cret.src, cret.range[1] + 1, cret.range[2]))
            /\ (~RangeAligned /\ cret.op = "checked_byte_slice"
                  /\ cret.range[1] < cret.range[2]) => cret.status = "err"
            /\ cret.range[1] = cret.range[2] => (cret.status = "ok" /\ cret.out = Some(<<>>)))
    /\ [][cret'.op \in {"byte_slice", "checked_byte_slice"} => chars' = chars]_vars

\* C8 witness: checked_byte_slice has just refused the range 1..2 of "A" U+00E9,
\* which ends inside the two-byte character.
C8_Witness ==
    /\ cret.op = "checked_byte_slice"
    /\ cret.src = <<65, 195, 169>>
    /\ chars = cret.src
    /\ cret.range = <<1, 2>>
    /\ cret.status = "err"

\* C9: new panics exactly when the key type is outside {U32, I32, U64, I64,
\* Bool, String}; otherwise it yields an empty container with the key and
\* value types it was given, whatever the value type.
C9_NewPanicsIff ==
    ret.op = "new" =>
        /\ ret.panicked <=> ret.key[1] \notin {"U32", "I32", "U64", "I64", "Bool", "String"}
        /\ ret.panicked => pc = "dead"
        /\ ~ret.panicked =>
              /\ pc = "live"
              /\ len(maps) = 0
              /\ is_empty(maps)
              /\ key_type(maps) = ret.key[1]
              /\ value_type(value) = ret.val[1]

\* C9 witness: new has just panicked on the key type F64.
C9_Witness ==
    /\ ret.op = "new"
    /\ ret.panicked
    /\ ret.key[1] = "F64"
    /\ pc = "dead"

\* C10: an insert that panics leaves the entries, len() and every get as they
\* were before the call.
C10_FailedInsertAtomic ==
    [][(ret'.op = "insert" /\ ret'.panicked)
          => /\ maps' = maps
             /\ len(maps') = len(maps)
             /\ value' = value]_vars

\* C10 witness: an insert with both the wrong key type and the wrong value
\* type has just panicked on a map that holds entries.
C10_Witness ==
    /\ pc = "live"
    /\ ret.op = "insert"
    /\ ret.panicked
    /\ get_type(ret.val[1]) # value
    /\ ret.key[1].tag # key_type(maps)
    /\ ~is_empty(maps)

====
